---- MODULE Spec2Model ----
(***************************************************************************)
(* Verification model of the novel-analysis pipeline.                      *)
(*                                                                         *)
(*   Spec     stage 2: ChunkEngine.process_all_chapters driven by          *)
(*            Stage2Coordinator.process_stage1_output                      *)
(*   SpecSeg  stage 1: ChapterSegmenter.segment                            *)
(*   SpecPost stage 2: Stage2Coordinator.post_process_events               *)
(*   SpecParse  stage 2: EventParser.parse_response, the parse attempts    *)
(*   SpecSource stage 2: EventParser.find_source_chapters                  *)
(*   SpecRun    the stage 1 -> stage 2 -> stage 3 runs and their handoffs  *)
(*   SpecRhythm stage 3: RhythmAnalyzer                                    *)
(*   SpecStory  stage 3: StorylineExtractor.extract_main_storyline         *)
(*   SpecPat    stage 1: ChapterSegmenter.__init__                         *)
(*   SpecLoop   stage 2: the loop of ChunkEngine.process_all_chapters,     *)
(*              with fairness, for its termination                         *)
(*                                                                         *)
(* chunk_engine.py:90 and stage2_coordinator.py:107-110 carry an unclosed  *)
(* parenthesis in the source; both are read with the parenthesis closed    *)
(* where the expression ends (completeness = 1 - incomplete/len(chunk);    *)
(* merge on an existing key, else insert).  rhythm_analyzer.py:8 names     *)
(* Any without importing it; the file is read with the import in place.    *)
(***************************************************************************)
EXTENDS Integers, Sequences, FiniteSets, TLC

VARIABLES
    \* ---- stage 2 (Spec) ----
    cfg,                 \* the stage-2 config: initial/min/max chunk size
    all_chapters,        \* the chapter analyses found in analysis_dir, in file order
    pc,                  \* position of the stage-2 run
    chunks,              \* create_initial_chunks' result (chunk_engine.py:146)
    final_chunks,        \* process_all_chapters' result list
    current_chunk_size,
    remaining_chapters,
    completeness,        \* last analyze_chunk_completeness score, as [inc, len]: 1 - inc/len
    incomplete_events,   \* last analyze_chunk_completeness incomplete list
    last_call,           \* history: arguments and result of the last calculate_next_chunk_size
    incomplete_log,      \* history: the incomplete list found for each chunk, in chunk order
    extract_log,         \* history: what each extract_events call was given
    \* ---- stage 1 segmenter (SpecSeg) ----
    text,                \* the text handed to segment
    seg_pc,
    seg_result,          \* the list segment returned
    \* ---- event reconciliation (SpecPost) ----
    events_in,           \* the list handed to post_process_events
    post_pc,
    events_out,          \* the list post_process_events returned
    \* ---- parse_response (SpecParse) ----
    response,            \* the service response handed to parse_response
    parse_arg,           \* the argument of the current (possibly recursive) call
    parse_attempts,      \* history: json.loads calls made so far
    parse_pc,
    parse_result,        \* what the outermost parse_response call ended with
    \* ---- find_source_chapters (SpecSource) ----
    src_chunk,           \* the chunk: chapters with the descriptions of their core events
    src_event,           \* one event record of the parsed response
    src_pc,
    src_unit,            \* the EventUnit built from it
    \* ---- the stage runs (SpecRun) ----
    run_in,              \* what the run meets: segmentation and per-unit service outcomes
    run_pc,
    run_i,               \* index of the next chapter / chunk
    processed,
    failed_chapters,
    all_events,          \* number of units collected by process_stage1_output
    stage1_output,
    stage2_output,
    stage3_output,
    \* ---- rhythm analysis (SpecRhythm) ----
    rh_events,
    rh_threshold,        \* config['turning_point_threshold']
    rh_pc,
    rh_turning,          \* detect_turning_points' result
    rh_pacing,           \* calculate_pacing_score's outcome
    \* ---- storyline (SpecStory) ----
    st_events,
    st_cfg,              \* main_story_min_impact, main_story_max_events
    st_response,         \* whether the storyline response parses
    st_pc,
    st_result,
    \* ---- segmenter construction (SpecPat) ----
    class_patterns,      \* the list object ChapterSegmenter.DEFAULT_PATTERNS
    instances            \* the segmenters constructed so far

stage2vars == <<cfg, all_chapters, pc, chunks, final_chunks, current_chunk_size,
                remaining_chapters, completeness, incomplete_events, last_call,
                incomplete_log, extract_log>>
segvars == <<text, seg_pc, seg_result>>
postvars == <<events_in, post_pc, events_out>>
parsevars == <<response, parse_arg, parse_attempts, parse_pc, parse_result>>
srcvars == <<src_chunk, src_event, src_pc, src_unit>>
runvars == <<run_in, run_pc, run_i, processed, failed_chapters, all_events,
             stage1_output, stage2_output, stage3_output>>
rhythmvars == <<rh_events, rh_threshold, rh_pc, rh_turning, rh_pacing>>
storyvars == <<st_events, st_cfg, st_response, st_pc, st_result>>
patvars == <<class_patterns, instances>>
latervars == <<parsevars, srcvars, runvars, rhythmvars, storyvars, patvars>>
vars == <<stage2vars, segvars, postvars, latervars>>

\* ------------------------------------------------------------------ bounds
MaxChapters == 5     \* chapters in analysis_dir
MaxSize == 4         \* largest configured chunk size
MaxTextLen == 5      \* characters in a text
MaxEvents == 3       \* events handed to post_process_events

\* ------------------------------------------------------------------ helpers
Min2(a, b) == IF a < b THEN a ELSE b
Max2(a, b) == IF a > b THEN a ELSE b

\* Python's seq[:k] and seq[k:] for any integer k (negative k counts from the end).
SliceIndex(k, n) == IF k < 0 THEN Max2(0, n + k) ELSE Min2(k, n)
Take(s, k) == SubSeq(s, 1, SliceIndex(k, Len(s)))
\* off by one: the chapter at the cut is lost
Drop_skip(s, k) == SubSeq(s, SliceIndex(k, Len(s)) + 2, Len(s))
Drop(s, k) == SubSeq(s, SliceIndex(k, Len(s)) + 1, Len(s))

\* Python's int(x): truncation toward zero, of the quotient a/b with b > 0.
TruncDiv(a, b) == IF a >= 0 THEN a \div b ELSE 0 - ((0 - a) \div b)

RECURSIVE Flatten(_)
Flatten(ss) == IF ss = <<>> THEN <<>> ELSE Head(ss) \o Flatten(Tail(ss))

RECURSIVE SelectSeqIdx(_, _)
\* the elements of s, in order, whose index is in the set keep
SelectSeqIdx(s, keep) ==
    IF s = <<>> THEN <<>>
    ELSE LET n == Len(s)
             front == SelectSeqIdx(SubSeq(s, 1, n - 1), keep)
         IN IF n \in keep THEN Append(front, s[n]) ELSE front

\* ------------------------------------------------------------------ stage 2
\* A chapter analysis: its id and the state of its last core event
\* ("none": core_events is empty; "complete": the last event has an outcome and
\* an impact_value; "incomplete": it lacks one of them). The description of a
\* chapter's last event is identified with the chapter's id.
ChapterKinds == {"none", "complete", "incomplete"}
Sizes == 0..MaxSize
Configs == [initial_chunk_size : Sizes, min_chunk_size : Sizes, max_chunk_size : Sizes]
ChapterLists ==
    UNION {{[i \in 1..n |-> [chapter_id |-> i, last |-> k[i]]] : k \in [1..n -> ChapterKinds]}
           : n \in 0..MaxChapters}

NoCall == [called |-> FALSE]

\* create_initial_chunks for initial_chunk_size /= 0: range(0, len, size) is empty
\* for a negative size.
InitialChunks(chapters, size) ==
    IF size < 0 \/ chapters = <<>> THEN <<>>
    ELSE LET n == (Len(chapters) + size - 1) \div size
         IN [j \in 1..n |-> SubSeq(chapters, (j - 1) * size + 1,
                                     Min2(j * size, Len(chapters)))]

\* analyze_chunk_completeness: the descriptions of the last events that lack an
\* outcome or an impact value.
IncompleteOf(c) ==
    LET idx == {i \in 1..Len(c) : c[i].last = "incomplete"}
        sel == SelectSeqIdx(c, idx)
    IN [i \in 1..Len(sel) |-> sel[i].chapter_id]

\* completeness < 0.7 and completeness > 0.9 for completeness = 1 - inc/len
\* (exact arithmetic; it agrees with the float comparison for len < 400).
Below07(co) == 10 * co.inc > 3 * co.len
Above09(co) == 10 * co.inc < co.len

\* int(current_size * 0.8) and int(current_size * 1.2)
Shrunk(current_size) == TruncDiv(4 * current_size, 5)
Grown(current_size) == TruncDiv(6 * current_size, 5)

\* the shrink branch without its floor at min_chunk_size
CalculateNextChunkSize_nofloor(current_size, co, remaining) ==
    LET new_size == IF Below07(co) THEN Shrunk(current_size)
                    ELSE IF Above09(co) THEN Min2(cfg.max_chunk_size, Grown(current_size))
                    ELSE current_size
    IN Min2(new_size, remaining)

\* without the clamp to the remaining chapter count
CalculateNextChunkSize_noclamp(current_size, co, remaining) ==
    IF Below07(co) THEN Max2(cfg.min_chunk_size, Shrunk(current_size))
    ELSE IF Above09(co) THEN Min2(cfg.max_chunk_size, Grown(current_size))
    ELSE current_size

CalculateNextChunkSize(current_size, co, remaining) ==
    LET new_size == IF Below07(co) THEN Max2(cfg.min_chunk_size, Shrunk(current_size))
                    ELSE IF Above09(co) THEN Min2(cfg.max_chunk_size, Grown(current_size))
                    ELSE current_size
    IN Min2(new_size, remaining)

\* prepare_input: per chapter its id and the descriptions of its core events.
PrepareInput(c, chunk_id) ==
    [chunk_id |-> chunk_id,
     chapter_ids |-> [i \in 1..Len(c) |-> c[i].chapter_id],
     descriptions |-> {c[i].chapter_id : i \in {j \in 1..Len(c) : c[j].last /= "none"}}]

\* extraction started on the precomputed fixed-size chunks, while chunking runs
ExtractableChunks_early == chunks
\* The chunk list the coordinator iterates: the value process_all_chapters
\* returned, available only once the call has returned.
ExtractableChunks == IF pc = "extract" THEN final_chunks ELSE <<>>

Init2 ==
    /\ cfg \in Configs
    /\ all_chapters \in ChapterLists
    /\ pc = "new"
    /\ chunks = <<>>
    /\ final_chunks = <<>>
    /\ current_chunk_size = 0
    /\ remaining_chapters = <<>>
    /\ completeness = [inc |-> 0, len |-> 1]
    /\ incomplete_events = <<>>
    /\ last_call = NoCall
    /\ incomplete_log = <<>>
    /\ extract_log = <<>>

Idle2 ==
    /\ cfg = [initial_chunk_size |-> 1, min_chunk_size |-> 1, max_chunk_size |-> 1]
    /\ all_chapters = <<>>
    /\ pc = "idle"
    /\ chunks = <<>>
    /\ final_chunks = <<>>
    /\ current_chunk_size = 0
    /\ remaining_chapters = <<>>
    /\ completeness = [inc |-> 0, len |-> 1]
    /\ incomplete_events = <<>>
    /\ last_call = NoCall
    /\ incomplete_log = <<>>
    /\ extract_log = <<>>

IdleSeg == text = <<>> /\ seg_pc = "idle" /\ seg_result = <<>>
IdlePost == events_in = <<>> /\ post_pc = "idle" /\ events_out = <<>>
IdleParse ==
    /\ response = <<>> /\ parse_arg = <<>> /\ parse_attempts = 0
    /\ parse_pc = "idle" /\ parse_result = [kind |-> "none"]
IdleSource ==
    /\ src_chunk = <<>>
    /\ src_event = [has_source |-> FALSE, source_chapters |-> <<>>,
                    has_description |-> FALSE, description |-> <<>>]
    /\ src_pc = "idle" /\ src_unit = [built |-> FALSE]
IdleRun ==
    /\ run_in = [segmentation |-> "ok", chapters |-> <<>>, chunks |-> <<>>]
    /\ run_pc = "idle" /\ run_i = 0 /\ processed = 0 /\ failed_chapters = <<>>
    /\ all_events = 0
    /\ stage1_output = [returned |-> FALSE]
    /\ stage2_output = [returned |-> FALSE]
    /\ stage3_output = [returned |-> FALSE]
IdleRhythm ==
    /\ rh_events = <<>> /\ rh_threshold = 7 /\ rh_pc = "idle"
    /\ rh_turning = <<>> /\ rh_pacing = [kind |-> "none"]
IdleStory ==
    /\ st_events = <<>> /\ st_cfg = [min_impact |-> 7, max_events |-> 20]
    /\ st_response = "parsed" /\ st_pc = "idle" /\ st_result = [kind |-> "none"]
IdlePat == class_patterns = <<>> /\ instances = <<>>
IdleBase == Idle2 /\ IdleSeg /\ IdlePost

\* Stage2Coordinator.__init__ / ChunkEngine.__init__: the three sizes are stored
\* as given.
Construct ==
    /\ pc = "new"
    /\ pc' = "constructed"
    /\ UNCHANGED <<cfg, all_chapters, chunks, final_chunks, current_chunk_size,
                   remaining_chapters, completeness, incomplete_events, last_call,
                   incomplete_log, extract_log>>

\* process_all_chapters up to the loop (chunk_engine.py:145-150).
\* math.ceil(len / 0) raises ZeroDivisionError.
StartChunking ==
    /\ pc = "constructed"
    /\ IF cfg.initial_chunk_size = 0
       THEN /\ pc' = "error"
            /\ UNCHANGED <<chunks, current_chunk_size, remaining_chapters>>
       ELSE /\ chunks' = InitialChunks(all_chapters, cfg.initial_chunk_size)
            /\ current_chunk_size' = cfg.initial_chunk_size
            /\ remaining_chapters' = all_chapters
            /\ pc' = "loop"
    /\ UNCHANGED <<cfg, all_chapters, final_chunks, completeness, incomplete_events,
                   last_call, incomplete_log, extract_log>>

\* The loop test and the first half of an iteration (chunk_engine.py:152-159):
\* take the chunk, analyse it, append it. An empty chunk makes
\* analyze_chunk_completeness divide by zero.
TakeChunk ==
    /\ pc = "loop"
    /\ IF remaining_chapters = <<>>
       THEN /\ pc' = "extract"
            /\ UNCHANGED <<remaining_chapters, completeness, incomplete_events,
                           final_chunks, incomplete_log>>
       ELSE LET chunk == Take(remaining_chapters, current_chunk_size)
                rest == Drop(remaining_chapters, current_chunk_size)
            IN IF chunk = <<>>
               THEN /\ pc' = "error"
                    /\ remaining_chapters' = rest
                    /\ UNCHANGED <<completeness, incomplete_events, final_chunks,
                                   incomplete_log>>
               ELSE /\ remaining_chapters' = rest
                    /\ incomplete_events' = IncompleteOf(chunk)
                    /\ completeness' = [inc |-> Len(IncompleteOf(chunk)), len |-> Len(chunk)]
                    /\ final_chunks' = Append(final_chunks, chunk)
                    /\ incomplete_log' = Append(incomplete_log, IncompleteOf(chunk))
                    /\ pc' = "advance"
    /\ UNCHANGED <<cfg, all_chapters, chunks, current_chunk_size, last_call, extract_log>>

\* The second half of an iteration (chunk_engine.py:162-168): stop when nothing
\* remains, else compute the next chunk size.
Advance ==
    /\ pc = "advance"
    /\ IF remaining_chapters = <<>>
       THEN /\ pc' = "extract"
            /\ UNCHANGED <<current_chunk_size, last_call>>
       ELSE LET r == CalculateNextChunkSize(current_chunk_size, completeness,
                                            Len(remaining_chapters))
            IN /\ current_chunk_size' = r
               /\ last_call' = [called |-> TRUE, current_size |-> current_chunk_size,
                                completeness |-> completeness,
                                remaining |-> Len(remaining_chapters), result |-> r]
               /\ pc' = "loop"
    /\ UNCHANGED <<cfg, all_chapters, chunks, final_chunks, remaining_chapters,
                   completeness, incomplete_events, incomplete_log, extract_log>>

\* One turn of the coordinator's loop (stage2_coordinator.py:78-83):
\* extract_events(chunk, i) is given the chunk and its index.
Extract ==
    /\ Len(extract_log) < Len(ExtractableChunks)
    /\ LET i == Len(extract_log)
       IN extract_log' = Append(extract_log, PrepareInput(ExtractableChunks[i + 1], i))
    /\ UNCHANGED <<cfg, all_chapters, pc, chunks, final_chunks, current_chunk_size,
                   remaining_chapters, completeness, incomplete_events, last_call,
                   incomplete_log>>

\* The coordinator's loop is over (stage2_coordinator.py:90-92).
Finish ==
    /\ pc = "extract"
    /\ Len(extract_log) = Len(final_chunks)
    /\ pc' = "done"
    /\ UNCHANGED <<cfg, all_chapters, chunks, final_chunks, current_chunk_size,
                   remaining_chapters, completeness, incomplete_events, last_call,
                   incomplete_log, extract_log>>

Next ==
    \/ (Construct /\ UNCHANGED <<segvars, postvars, latervars>>)
    \/ (StartChunking /\ UNCHANGED <<segvars, postvars, latervars>>)
    \/ (TakeChunk /\ UNCHANGED <<segvars, postvars, latervars>>)
    \/ (Advance /\ UNCHANGED <<segvars, postvars, latervars>>)
    \/ (Extract /\ UNCHANGED <<segvars, postvars, latervars>>)
    \/ (Finish /\ UNCHANGED <<segvars, postvars, latervars>>)

Init ==
    /\ Init2 /\ IdleSeg /\ IdlePost
    /\ IdleParse /\ IdleSource /\ IdleRun /\ IdleRhythm /\ IdleStory /\ IdlePat

Spec == Init /\ [][Next]_vars

\* ------------------------------------------------------------------ stage 2 claims
ValidConfig == 1 <= cfg.min_chunk_size /\ cfg.min_chunk_size <= cfg.max_chunk_size
InitialInRange ==
    cfg.min_chunk_size <= cfg.initial_chunk_size /\ cfg.initial_chunk_size <= cfg.max_chunk_size
SeqRange(s) == {s[i] : i \in 1..Len(s)}
CeilDiv(a, b) == 0 - ((0 - a) \div b)

\* C1 (as stated): for every configuration with 1 <= min_chunk_size <= max_chunk_size,
\* the value calculate_next_chunk_size returns in process_all_chapters is within
\* [min_chunk_size, max_chunk_size] and at most the number of remaining chapters.
C1_SizeWithinMinMax ==
    (ValidConfig /\ last_call.called) =>
        /\ cfg.min_chunk_size <= last_call.result
        /\ last_call.result <= cfg.max_chunk_size
        /\ last_call.result <= last_call.remaining

\* C1 (amended): for every configuration with
\* 1 <= min_chunk_size <= initial_chunk_size <= max_chunk_size, the returned size is
\* at most the number of remaining chapters, at most max_chunk_size, and at least
\* min_chunk_size unless fewer than min_chunk_size chapters remain, in which case
\* it is the number of remaining chapters.
C1_SizeBounded ==
    (ValidConfig /\ InitialInRange /\ last_call.called) =>
        /\ last_call.result <= last_call.remaining
        /\ last_call.result <= cfg.max_chunk_size
        /\ last_call.result >= Min2(cfg.min_chunk_size, last_call.remaining)

\* a call whose result was clamped below min_chunk_size by the remaining count
C1_Witness ==
    /\ ValidConfig /\ InitialInRange /\ last_call.called
    /\ last_call.result < cfg.min_chunk_size
    /\ last_call.result = last_call.remaining

\* C2: calculate_next_chunk_size(current_size, completeness, remaining) is
\* min(remaining, S), S = max(min_chunk_size, floor(0.8 * current_size)) below 0.7,
\* S = min(max_chunk_size, ceil(1.2 * current_size)) above 0.9, S = current_size
\* otherwise (stated for the calls made under a configuration with
\* 1 <= min_chunk_size <= initial_chunk_size <= max_chunk_size).
C2_FloorAndCeil ==
    (ValidConfig /\ InitialInRange /\ last_call.called) =>
        LET c == last_call.current_size
            S == IF Below07(last_call.completeness)
                 THEN Max2(cfg.min_chunk_size, (4 * c) \div 5)
                 ELSE IF Above09(last_call.completeness)
                 THEN Min2(cfg.max_chunk_size, CeilDiv(6 * c, 5))
                 ELSE c
        IN last_call.result = Min2(last_call.remaining, S)

\* C3: the chunks process_all_chapters returns are non-empty and their
\* concatenation, in output order, is the loaded chapter sequence.
C3_Partition ==
    (pc \in {"extract", "done"}) =>
        /\ Flatten(final_chunks) = all_chapters
        /\ \A i \in 1..Len(final_chunks) : final_chunks[i] /= <<>>

\* a returned partition of at least three chunks of different sizes
C3_Witness ==
    /\ pc = "done"
    /\ Len(final_chunks) >= 3
    /\ \E i, j \in 1..Len(final_chunks) : Len(final_chunks[i]) /= Len(final_chunks[j])

\* C4: the incomplete-event descriptions found in chunk i are part of the input
\* given to the extraction of chunk i+1 (stated for the runs under a configuration
\* with 1 <= min_chunk_size <= initial_chunk_size <= max_chunk_size).
C4_CarryForward ==
    (ValidConfig /\ InitialInRange) =>
        \A j \in 2..Len(extract_log) :
            SeqRange(incomplete_log[j - 1]) \subseteq extract_log[j].descriptions

\* C5: when the extraction of a chunk starts, the completeness analysis of every
\* preceding chunk has finished and the chunk boundaries are final.
C5_ExtractionAfterAnalysis ==
    \A j \in 1..Len(extract_log) :
        /\ \A k \in 1..(j - 1) : k <= Len(incomplete_log)
        /\ remaining_chapters = <<>>
        /\ extract_log[j].chapter_ids
              = [i \in 1..Len(final_chunks[j]) |-> final_chunks[j][i].chapter_id]

\* the second chunk's extraction has started and the first chunk had incomplete events
C5_Witness ==
    /\ Len(extract_log) >= 2
    /\ incomplete_log[1] /= <<>>

\* C6: a configuration with min_chunk_size < 1 or max_chunk_size < min_chunk_size
\* is rejected at construction, before any chapter is assigned to a chunk.
C6_InvalidConfigRejected ==
    (~ValidConfig) => (pc \in {"new", "config_error"} /\ final_chunks = <<>>)

\* ------------------------------------------------------------------ stage 1: segmenter
\* A text is a sequence of characters. "h" and "g" stand for the fixed opening of
\* a heading under the first and the second heading pattern (the chapter-number or
\* volume-number prefix), "x" is any other visible character, " " a blank and "\n" a line break.
\* Every default pattern ends in ".*", so a match runs from its opening to the
\* end of the line.
Chars == {"h", "g", "x", " ", "\n"}
Whitespace == {" ", "\n"}
DEFAULT_PATTERNS == <<"h", "g">>
\* the title of the synthetic chapter (chapter_segmenter.py:65), as one token
FullTextTitle == <<"FullText">>
Texts == UNION {[1..n -> Chars] : n \in 0..MaxTextLen}

\* str.strip()
RECURSIVE LStrip(_)
LStrip(t) == IF t /= <<>> /\ Head(t) \in Whitespace THEN LStrip(Tail(t)) ELSE t
RECURSIVE RStrip(_)
RStrip(t) ==
    IF t /= <<>> /\ t[Len(t)] \in Whitespace THEN RStrip(SubSeq(t, 1, Len(t) - 1)) ELSE t
Strip(t) == RStrip(LStrip(t))

\* text[a:b] for 0 <= a, b <= len(text)
Slice(t, a, b) == SubSeq(t, a + 1, b)

\* the 0-based position of the end of the line that holds 0-based position p
RECURSIVE LineEnd(_, _)
LineEnd(t, p) == IF p >= Len(t) \/ t[p + 1] = "\n" THEN p ELSE LineEnd(t, p + 1)

\* pattern.finditer(text) from 0-based position p: the non-overlapping matches of
\* one pattern, left to right, as (match.start(), match.group(0))
RECURSIVE FindIter(_, _, _)
FindIter(t, pattern, p) ==
    IF p >= Len(t) THEN <<>>
    ELSE IF t[p + 1] = pattern
         THEN <<[pos |-> p, title |-> Slice(t, p, LineEnd(t, p))]>>
              \o FindIter(t, pattern, LineEnd(t, p))
         ELSE FindIter(t, pattern, p + 1)

\* the matches of all patterns, pattern by pattern
RECURSIVE AllMatches(_, _)
AllMatches(t, patterns) ==
    IF patterns = <<>> THEN <<>>
    ELSE FindIter(t, Head(patterns), 0) \o AllMatches(t, Tail(patterns))

\* matches.sort(key=lambda x: x[0]): a stable sort by position
RECURSIVE InsertByPos(_, _)
InsertByPos(sorted, m) ==
    IF sorted = <<>> THEN <<m>>
    ELSE IF sorted[Len(sorted)].pos <= m.pos THEN Append(sorted, m)
    ELSE Append(InsertByPos(SubSeq(sorted, 1, Len(sorted) - 1), m), sorted[Len(sorted)])
RECURSIVE SortByPos(_)
SortByPos(ms) ==
    IF ms = <<>> THEN <<>>
    ELSE InsertByPos(SortByPos(SubSeq(ms, 1, Len(ms) - 1)), ms[Len(ms)])

Matches(t, patterns) == SortByPos(AllMatches(t, patterns))

\* the first match is skipped whatever its position
SkipsMatch_always(i, pos) == i = 0
\* chapter_segmenter.py:74: the test that guards "continue"
SkipsMatch(i, pos) == i = 0 /\ pos > 0

\* the body of the loop over the matches (chapter_segmenter.py:72-92), from
\* 0-based index i with the loop state st = [start_index, chapter_count, chapters]
RECURSIVE SegmentLoop(_, _, _, _)
SegmentLoop(t, matches, i, st) ==
    IF i >= Len(matches) THEN st.chapters
    ELSE LET m == matches[i + 1]
         IN IF SkipsMatch(i, m.pos)
            THEN SegmentLoop(t, matches, i + 1,
                             [st EXCEPT !.start_index = m.pos])
            ELSE LET end_index == IF i + 1 < Len(matches) THEN matches[i + 2].pos
                                  ELSE Len(t)
                     chapter == [ordinal |-> st.chapter_count + 1,
                                 title |-> Strip(m.title),
                                 content |-> Strip(Slice(t, st.start_index, end_index))]
                 IN SegmentLoop(t, matches, i + 1,
                                [start_index |-> end_index,
                                 chapter_count |-> st.chapter_count + 1,
                                 chapters |-> Append(st.chapters, chapter)])

\* the whole text as one chapter, stripped
SingleChapter_stripped(t) == <<[ordinal |-> 1, title |-> FullTextTitle, content |-> Strip(t)]>>
\* chapter_segmenter.py:65
SingleChapter(t) == <<[ordinal |-> 1, title |-> FullTextTitle, content |-> t]>>

\* ChapterSegmenter.segment
Segment(t, patterns) ==
    IF Strip(t) = <<>> THEN <<>>
    ELSE LET matches == Matches(t, patterns)
         IN IF matches = <<>> THEN SingleChapter(t)
            ELSE SegmentLoop(t, matches, 0,
                             [start_index |-> 0, chapter_count |-> 0, chapters |-> <<>>])

InitSeg ==
    /\ text \in Texts
    /\ seg_pc = "ready"
    /\ seg_result = <<>>

SegmentCall ==
    /\ seg_pc = "ready"
    /\ seg_result' = Segment(text, DEFAULT_PATTERNS)
    /\ seg_pc' = "done"
    /\ UNCHANGED text

NextSeg == SegmentCall /\ UNCHANGED <<stage2vars, postvars, latervars>>

SegInit ==
    /\ Idle2 /\ InitSeg /\ IdlePost
    /\ IdleParse /\ IdleSource /\ IdleRun /\ IdleRhythm /\ IdleStory /\ IdlePat

SpecSeg == SegInit /\ [][NextSeg]_vars

\* ------------------------------------------------------------------ segmenter claims
TextMatches == Matches(text, DEFAULT_PATTERNS)
\* no match reaches into the next one
NonOverlapping(ms) ==
    \A i \in 1..(Len(ms) - 1) : ms[i].pos + Len(ms[i].title) <= ms[i + 1].pos
\* the end of the span of match i: the start of the next match, or the end of the text
SpanEnd(ms, i) == IF i < Len(ms) THEN ms[i + 1].pos ELSE Len(text)

C8_FrontMatterOnly ==
    (seg_pc = "done" /\ TextMatches /= <<>> /\ NonOverlapping(TextMatches)
        /\ TextMatches[1].pos > 0) =>
        /\ Len(seg_result) = Len(TextMatches)
        /\ \A i \in 1..Len(seg_result) :
              /\ seg_result[i].ordinal = i
              /\ seg_result[i].title = Strip(TextMatches[i].title)
              /\ seg_result[i].content
                    = Strip(Slice(text, TextMatches[i].pos, SpanEnd(TextMatches, i)))

\* C9: when no pattern matches, segment returns the empty list for an empty or
\* whitespace-only text and otherwise exactly one chapter, of ordinal 1, whose
\* content is the whole input.
C9_NoHeading ==
    (seg_pc = "done" /\ TextMatches = <<>>) =>
        IF \A i \in 1..Len(text) : text[i] \in Whitespace
        THEN seg_result = <<>>
        ELSE /\ Len(seg_result) = 1
             /\ seg_result[1].ordinal = 1
             /\ seg_result[1].content = text

\* a text without heading that begins or ends with whitespace, returned whole
C9_Witness ==
    /\ seg_pc = "done" /\ TextMatches = <<>>
    /\ Len(seg_result) = 1
    /\ Strip(text) /= text
    /\ seg_result[1].content = text

\* ------------------------------------------------------------------ event reconciliation
\* An event: its id, its description (a sequence of characters) and its
\* source_chapters. source_chapters is modelled by the set of its elements, so
\* list(set(x + y)) is the union.
Descriptions == {<<"a">>, <<"A">>, <<"a", "b">>, <<"A", "B">>}
ChapterIds == {1, 2}
EventFields == [description : Descriptions, source_chapters : SUBSET ChapterIds]
\* the event lists on f, a list of the fields above: event_id is the position
WithIds(f) ==
    [i \in 1..Len(f) |-> [event_id |-> i, description |-> f[i].description,
                          source_chapters |-> f[i].source_chapters]]

\* str.lower()
LowerChar(ch) == CASE ch = "A" -> "a" [] ch = "B" -> "b" [] OTHER -> ch
Lower(d) == [i \in 1..Len(d) |-> LowerChar(d[i])]

\* a case-sensitive key
DedupKey_exact(event) == event.description
\* stage2_coordinator.py:104
DedupKey(event) == Lower(event.description)

\* One turn of the loop of post_process_events (stage2_coordinator.py:103-110) on
\* unique_events, a dict in insertion order, modelled by the sequence of its
\* values: merge the source chapters into the record of the same key, else insert.
PostProcessStep(unique_events, event) ==
    LET hit == {i \in 1..Len(unique_events) : DedupKey(unique_events[i]) = DedupKey(event)}
    IN IF hit /= {}
       THEN [i \in 1..Len(unique_events) |->
               IF i \in hit
               THEN [unique_events[i] EXCEPT
                       !.source_chapters = @ \cup event.source_chapters]
               ELSE unique_events[i]]
       ELSE Append(unique_events, event)

RECURSIVE PostProcessEvents(_)
PostProcessEvents(events) ==
    IF events = <<>> THEN <<>>
    ELSE PostProcessStep(PostProcessEvents(SubSeq(events, 1, Len(events) - 1)),
                         events[Len(events)])

InitPost ==
    /\ \E n \in 0..MaxEvents : \E f \in [1..n -> EventFields] : events_in = WithIds(f)
    /\ post_pc = "ready"
    /\ events_out = <<>>

PostProcessCall ==
    /\ post_pc = "ready"
    /\ events_out' = PostProcessEvents(events_in)
    /\ post_pc' = "done"
    /\ UNCHANGED events_in

NextPost == PostProcessCall /\ UNCHANGED <<stage2vars, segvars, latervars>>

PostInit ==
    /\ Idle2 /\ IdleSeg /\ InitPost
    /\ IdleParse /\ IdleSource /\ IdleRun /\ IdleRhythm /\ IdleStory /\ IdlePat

SpecPost == PostInit /\ [][NextPost]_vars

\* ------------------------------------------------------------------ reconciliation claims
SameIgnoringCase(d1, d2) == Lower(d1) = Lower(d2)

\* C10: after post_process_events no two result records have descriptions equal
\* ignoring case; each result record's source_chapters is the union of the
\* source_chapters of the input events whose description equals its own ignoring
\* case; and every input event has its record (events of different normalized
\* descriptions are not merged).
C10_Reconciled ==
    (post_pc = "done") =>
        /\ \A i, j \in 1..Len(events_out) :
              SameIgnoringCase(events_out[i].description, events_out[j].description)
                  => i = j
        /\ \A i \in 1..Len(events_out) :
              events_out[i].source_chapters
                 = UNION {events_in[k].source_chapters :
                            k \in {n \in 1..Len(events_in) :
                                     SameIgnoringCase(events_in[n].description,
                                                      events_out[i].description)}}
        /\ \A k \in 1..Len(events_in) :
              \E i \in 1..Len(events_out) :
                  SameIgnoringCase(events_in[k].description, events_out[i].description)

\* two events that differ only by case, with disjoint source chapters, merged
\* into one record beside an event of another description
C10_Witness ==
    /\ post_pc = "done"
    /\ Len(events_in) = 3 /\ Len(events_out) = 2
    /\ events_in[1].description /= events_in[3].description
    /\ SameIgnoringCase(events_in[1].description, events_in[3].description)
    /\ events_in[1].source_chapters = {1} /\ events_in[3].source_chapters = {2}
    /\ events_out[1].source_chapters = {1, 2}

(***************************************************************************)
(* Stage 2: EventParser.find_source_chapters and the loop body of          *)
(* parse_response that calls it (event_parser.py).                         *)
(*                                                                         *)
(* A chapter of the chunk is its chapter_id and the descriptions of its    *)
(* core events; an event of the response is a dict that may or may not     *)
(* carry 'source_chapters' and 'description'.  The EventUnit class lives   *)
(* in src/core/data_models.py, outside the sources at hand: it is taken    *)
(* as the plain record of the specification's data model, which keeps the  *)
(* fields it is given.                                                     *)
(***************************************************************************)
MaxChunkChapters == 2
MaxCoreEvents == 2

CoreDescriptions == {<<"A", "b">>, <<"b">>}
EventDescriptions == {<<"a">>, <<"B">>, <<"a", "b">>, <<"c">>}
ExplicitSources == {<<>>, <<2>>}

\* needle in hay, for Python strings
IsSubstring(needle, hay) ==
    \E i \in 0..(Len(hay) - Len(needle)) : SubSeq(hay, i + 1, i + Len(needle)) = needle

\* event.get('description', '').lower()
EventDesc(event) ==
    Lower(IF event.has_description THEN event.description ELSE <<>>)

\* The inner loop over chapter.core_events: what it appends to
\* source_chapters, stopping at the first hit when stop is set.
RECURSIVE AppendsFrom(_, _, _, _)
AppendsFrom(core_events, chapter_id, event_desc, stop) ==
    IF core_events = <<>> THEN <<>>
    ELSE IF IsSubstring(event_desc, Lower(Head(core_events)))
         THEN IF stop THEN <<chapter_id>>
              ELSE <<chapter_id>> \o AppendsFrom(Tail(core_events), chapter_id, event_desc, stop)
         ELSE AppendsFrom(Tail(core_events), chapter_id, event_desc, stop)

ChapterAppends_nobreak(chapter, event_desc) ==
    AppendsFrom(chapter.core_events, chapter.chapter_id, event_desc, FALSE)
ChapterAppends(chapter, event_desc) ==
    AppendsFrom(chapter.core_events, chapter.chapter_id, event_desc, TRUE)

RECURSIVE SourceLoop(_, _)
SourceLoop(chunk, event_desc) ==
    IF chunk = <<>> THEN <<>>
    ELSE ChapterAppends(Head(chunk), event_desc) \o SourceLoop(Tail(chunk), event_desc)

find_source_chapters(event, chunk) == SourceLoop(chunk, EventDesc(event))

EventUnit(event) ==
    [built |-> TRUE, description |-> event.description,
     source_chapters |-> event.source_chapters]

\* parse_response, lines 63-68, for one event of the response
WithSource(event, chunk) ==
    IF ~event.has_source
    THEN [event EXCEPT !.has_source = TRUE,
                       !.source_chapters = find_source_chapters(event, chunk)]
    ELSE event

InitSource ==
    /\ \E n \in 0..MaxChunkChapters :
         \E f \in [1..n -> UNION {[1..k -> CoreDescriptions] : k \in 0..MaxCoreEvents}] :
            src_chunk = [i \in 1..n |-> [chapter_id |-> i, core_events |-> f[i]]]
    /\ \/ \E d \in EventDescriptions, hs \in BOOLEAN, sc \in ExplicitSources :
            /\ ~hs => sc = <<>>
            /\ src_event = [has_source |-> hs, source_chapters |-> sc,
                            has_description |-> TRUE, description |-> d]
       \/ \E hs \in BOOLEAN, sc \in ExplicitSources :
            /\ ~hs => sc = <<>>
            /\ src_event = [has_source |-> hs, source_chapters |-> sc,
                            has_description |-> FALSE, description |-> <<>>]
    /\ src_pc = "parsed"
    /\ src_unit = [built |-> FALSE]

BuildUnit ==
    /\ src_pc = "parsed"
    /\ src_unit' = EventUnit(WithSource(src_event, src_chunk))
    /\ src_pc' = "done"
    /\ UNCHANGED <<src_chunk, src_event>>

NextSource ==
    BuildUnit /\ UNCHANGED <<stage2vars, segvars, postvars, parsevars, runvars,
                             rhythmvars, storyvars, patvars>>

SourceInit ==
    /\ IdleBase /\ InitSource
    /\ IdleParse /\ IdleRun /\ IdleRhythm /\ IdleStory /\ IdlePat

SpecSource == SourceInit /\ [][NextSource]_vars

\* C11: every EventUnit that parse_response builds, and that so reaches the
\* knowledge base, has a non-empty source_chapters; this includes the
\* events the response gave no provenance for and whose description is in
\* no core event of the chunk.
C11_NonEmptySources ==
    (src_pc = "done" /\ src_unit.built) => src_unit.source_chapters /= <<>>

\* The chapters of the chunk that have at least one core event whose
\* description contains the event's description, case ignored.
MatchingChapter(chapter, event) ==
    \E j \in 1..Len(chapter.core_events) :
        IsSubstring(EventDesc(event), Lower(chapter.core_events[j]))

MatchingIds(chunk, event) ==
    LET hits == SelectSeq(chunk, LAMBDA c : MatchingChapter(c, event))
    IN  [i \in 1..Len(hits) |-> hits[i].chapter_id]

\* C17: for an event without 'source_chapters', the unit's source_chapters
\* are, in chunk order and each at most once, the ids of the chapters with
\* at least one core event whose description contains the event's
\* description ignoring case; an event that carries 'source_chapters'
\* keeps them unchanged.
C17_SourceChapters ==
    src_pc = "done" =>
        IF src_event.has_source
        THEN src_unit.source_chapters = src_event.source_chapters
        ELSE src_unit.source_chapters = MatchingIds(src_chunk, src_event)

\* An event without provenance whose description, differently cased, is in
\* both core events of chapter 1 and in one of chapter 2.
C17_Witness ==
    /\ src_pc = "done" /\ ~src_event.has_source
    /\ src_event.description = <<"B">>
    /\ Len(src_chunk) = 2
    /\ src_chunk[1].core_events = <<<<"A", "b">>, <<"b">>>>
    /\ src_unit.source_chapters = <<1, 2>>

(***************************************************************************)
(* Stage 2: EventParser.parse_response, the direct parse and the retry on  *)
(* the brace-delimited span (event_parser.py:49-84).                       *)
(*                                                                         *)
(* A response is a string over a small alphabet: the brackets and braces   *)
(* of JSON, "k" for the members of a non-empty object, "x" for any text    *)
(* that is not JSON.  Each step is one activation of parse_response; the   *)
(* recursive call of line 78 is the next step on the extracted span.  The  *)
(* interpreter ends a recursion that gets RecursionLimit frames deep with  *)
(* a RecursionError.                                                       *)
(***************************************************************************)
MaxResponseLen == 4
RecursionLimit == 4

ResponseChars == {"[", "]", "{", "}", "k", "x"}

\* json.loads(s) succeeds
RECURSIVE IsJson(_)
IsJson(s) ==
    \/ s \in {<<"{", "}">>, <<"{", "k", "}">>, <<"[", "]">>}
    \/ /\ Len(s) >= 3 /\ s[1] = "[" /\ s[Len(s)] = "]"
       /\ IsJson(SubSeq(s, 2, Len(s) - 1))

\* what json.loads(s) returns, as far as the loop of lines 63-68 tells apart
Loaded(s) ==
    CASE s = <<"{", "}">> -> "empty_dict"
      [] s = <<"{", "k", "}">> -> "dict"
      [] s = <<"[", "]">> -> "empty_list"
      [] OTHER -> IF s[2] = "{" THEN "list_of_dict" ELSE "list_of_list"

\* Lines 62-71 on the loaded value.  A list of event dicts gives its units;
\* an empty list or dict gives no unit; iterating a non-empty dict yields
\* its keys, and a list item that is a list is no dict either: both reach
\* event.get in find_source_chapters and raise AttributeError.
BuildUnits(loaded) ==
    CASE loaded \in {"empty_dict", "empty_list"} -> [kind |-> "returned", units |-> 0]
      [] loaded = "list_of_dict" -> [kind |-> "returned", units |-> 1]
      [] OTHER -> [kind |-> "raised", error |-> "AttributeError"]

\* str.find / str.rfind of one character, 0-based, -1 when absent
Find(s, ch) ==
    IF \E i \in 1..Len(s) : s[i] = ch
    THEN (CHOOSE i \in 1..Len(s) : s[i] = ch /\ \A j \in 1..(i - 1) : s[j] /= ch) - 1
    ELSE -1
RFind(s, ch) ==
    IF \E i \in 1..Len(s) : s[i] = ch
    THEN (CHOOSE i \in 1..Len(s) : s[i] = ch /\ \A j \in (i + 1)..Len(s) : s[j] /= ch) - 1
    ELSE -1

\* response[start:end + 1] of line 78
BraceSpan(s) == Slice(s, Find(s, "{"), RFind(s, "}") + 1)
HasBraces(s) == Find(s, "{") /= -1 /\ RFind(s, "}") /= -1

\* An exception of a recursive activation is caught by the caller's
\* "except Exception" (line 82), which returns []; in the outermost
\* activation only JSONDecodeError is caught (line 72).
Outcome(r, attempts) ==
    IF r.kind = "raised" /\ attempts > 0 THEN [kind |-> "returned", units |-> 0] ELSE r

InitParse ==
    /\ \E n \in 0..MaxResponseLen : response \in [1..n -> ResponseChars]
    /\ parse_arg = response
    /\ parse_attempts = 0
    /\ parse_pc = "call"
    /\ parse_result = [kind |-> "none"]

\* lines 59-71: the parse succeeds
ParseOk ==
    /\ parse_pc = "call" /\ parse_attempts < RecursionLimit
    /\ IsJson(parse_arg)
    /\ parse_attempts' = parse_attempts + 1
    /\ parse_result' = Outcome(BuildUnits(Loaded(parse_arg)), parse_attempts)
    /\ parse_pc' = "done"
    /\ UNCHANGED <<response, parse_arg>>

\* lines 72-78: JSONDecodeError, a span is found and parse_response is
\* called on it, whether or not it differs from the string that just failed
ParseRetry ==
    /\ parse_pc = "call" /\ parse_attempts < RecursionLimit
    /\ ~IsJson(parse_arg)
    /\ HasBraces(parse_arg)
    /\ parse_attempts' = parse_attempts + 1
    /\ parse_arg' = BraceSpan(parse_arg)
    /\ UNCHANGED <<response, parse_pc, parse_result>>

\* lines 72-81: JSONDecodeError and no span
ParseGiveUp ==
    /\ parse_pc = "call" /\ parse_attempts < RecursionLimit
    /\ ~IsJson(parse_arg)
    /\ ~HasBraces(parse_arg)
    /\ parse_attempts' = parse_attempts + 1
    /\ parse_result' = [kind |-> "returned", units |-> 0]
    /\ parse_pc' = "done"
    /\ UNCHANGED <<response, parse_arg>>

\* the call of line 78 exceeds the recursion limit: RecursionError, caught
\* at line 82 by the caller, whose [] is returned all the way up
ParseOverflow ==
    /\ parse_pc = "call" /\ parse_attempts = RecursionLimit
    /\ parse_result' = [kind |-> "returned", units |-> 0]
    /\ parse_pc' = "done"
    /\ UNCHANGED <<response, parse_arg, parse_attempts>>

NextParse ==
    \/ (ParseOk /\ UNCHANGED <<stage2vars, segvars, postvars, srcvars, runvars,
                               rhythmvars, storyvars, patvars>>)
    \/ (ParseRetry /\ UNCHANGED <<stage2vars, segvars, postvars, srcvars, runvars,
                                  rhythmvars, storyvars, patvars>>)
    \/ (ParseGiveUp /\ UNCHANGED <<stage2vars, segvars, postvars, srcvars, runvars,
                                   rhythmvars, storyvars, patvars>>)
    \/ (ParseOverflow /\ UNCHANGED <<stage2vars, segvars, postvars, srcvars, runvars,
                                     rhythmvars, storyvars, patvars>>)

ParseInit ==
    /\ IdleBase /\ InitParse
    /\ IdleSource /\ IdleRun /\ IdleRhythm /\ IdleStory /\ IdlePat

SpecParse == ParseInit /\ [][NextParse]_vars

\* C16: parse_response makes at most two parse attempts on any response,
\* the direct parse and one retry on the brace-delimited span; when both
\* fail it returns the empty list, without raising and without a further
\* retry.
C16_AtMostTwoAttempts ==
    /\ parse_attempts <= 2
    /\ (/\ parse_pc = "done"
        /\ ~IsJson(response)
        /\ HasBraces(response) => ~IsJson(BraceSpan(response)))
       => parse_result = [kind |-> "returned", units |-> 0]

(***************************************************************************)
(* The runs of the three stages and what one hands to the next:            *)
(* Stage1Coordinator.process_novel with SemanticAnalyzer.analyze_and_save, *)
(* Stage2Coordinator.run with EventParser.extract_events, and              *)
(* Stage3Coordinator.run.                                                  *)
(*                                                                         *)
(* run_in is what the run meets: whether the segmentation works, and for   *)
(* each chapter and each chunk what happens to its service call.  Chapter  *)
(* i has the id i.  The chunking itself is the specification Spec; here a  *)
(* run has as many chunks as run_in.chunks is long.                        *)
(***************************************************************************)
MaxUnits == 3
MaxChunks == 2

\* ok: the service answers and the answer parses.  service_fail: generate
\* raises.  parse_fail: the answer is no JSON, or not of the expected shape.
\* io_fail: the chapter file cannot be read or the result cannot be written.
ChapterOutcomes == {"ok", "service_fail", "parse_fail", "io_fail"}
ChunkOutcomes == {"ok", "service_fail", "parse_fail"}

\* SemanticAnalyzer.analyze: every exception of the service call and of the
\* parsing is caught and turned into an error structure that is returned.
analyze(outcome) ==
    IF outcome = "ok" THEN [raised |-> FALSE, error |-> FALSE]
    ELSE [raised |-> FALSE, error |-> TRUE]

\* SemanticAnalyzer.analyze_and_save: only reading and writing re-raise.
analyze_and_save(outcome) ==
    IF outcome = "io_fail" THEN [raised |-> TRUE, error |-> FALSE] ELSE analyze(outcome)

\* EventParser.extract_events: the units of the chunk, [] on any exception.
extract_events(outcome) == IF outcome = "ok" THEN 1 ELSE 0

InitRun ==
    /\ \E sg \in {"ok", "fail"}, n \in 0..MaxUnits, k \in 0..MaxChunks :
         \E cs \in [1..n -> ChapterOutcomes], ks \in [1..k -> ChunkOutcomes] :
            run_in = [segmentation |-> sg, chapters |-> cs, chunks |-> ks]
    /\ run_pc = "segment"
    /\ run_i = 0 /\ processed = 0 /\ failed_chapters = <<>> /\ all_events = 0
    /\ stage1_output = [returned |-> FALSE]
    /\ stage2_output = [returned |-> FALSE]
    /\ stage3_output = [returned |-> FALSE]

\* process_novel, lines 72-90
SegmentToFiles ==
    /\ run_pc = "segment"
    /\ IF run_in.segmentation = "fail"
       THEN /\ stage1_output' = [returned |-> TRUE,
                                 handoff |-> [status |-> "error",
                                              message |-> "Segmentation failed",
                                              chapters_processed |-> 0]]
            /\ run_pc' = "stage2"
            /\ run_i' = run_i
       ELSE /\ stage1_output' = stage1_output
            /\ run_pc' = "analyze"
            /\ run_i' = 1
    /\ UNCHANGED <<run_in, processed, failed_chapters, all_events, stage2_output,
                   stage3_output>>

\* process_novel, lines 100-115: one iteration of the chapter loop
AnalyzeChapter ==
    /\ run_pc = "analyze" /\ run_i <= Len(run_in.chapters)
    /\ IF analyze_and_save(run_in.chapters[run_i]).raised
       THEN /\ failed_chapters' = Append(failed_chapters, run_i)
            /\ processed' = processed
       ELSE /\ processed' = processed + 1
            /\ failed_chapters' = failed_chapters
    /\ run_i' = run_i + 1
    /\ UNCHANGED <<run_in, run_pc, all_events, stage1_output, stage2_output,
                   stage3_output>>

\* process_novel, lines 117-129
Stage1Return ==
    /\ run_pc = "analyze" /\ run_i > Len(run_in.chapters)
    /\ stage1_output' =
         [returned |-> TRUE,
          handoff |-> [status |-> IF failed_chapters = <<>> THEN "completed" ELSE "partial",
                       total_chapters |-> Len(run_in.chapters),
                       processed |-> processed,
                       failed |-> Len(failed_chapters),
                       failed_chapters |-> failed_chapters,
                       original_dir |-> "original_chapters",
                       analysis_dir |-> "analysis_results"]]
    /\ run_pc' = "stage2"
    /\ UNCHANGED <<run_in, run_i, processed, failed_chapters, all_events, stage2_output,
                   stage3_output>>

\* Stage2Coordinator.run, lines 147-153, and process_stage1_output, lines
\* 68-75: without an analysis directory in the handoff the run raises.
Stage2Start ==
    /\ run_pc = "stage2"
    /\ IF "analysis_dir" \in DOMAIN stage1_output.handoff
       THEN /\ run_pc' = "extract" /\ run_i' = 1
            /\ stage2_output' = stage2_output
       ELSE /\ run_pc' = "done" /\ run_i' = run_i
            /\ stage2_output' = [returned |-> FALSE, raised |-> "ValueError"]
    /\ UNCHANGED <<run_in, processed, failed_chapters, all_events, stage1_output,
                   stage3_output>>

\* process_stage1_output, lines 78-83: one iteration of the chunk loop
ExtractChunk ==
    /\ run_pc = "extract" /\ run_i <= Len(run_in.chunks)
    /\ all_events' = all_events + extract_events(run_in.chunks[run_i])
    /\ run_i' = run_i + 1
    /\ UNCHANGED <<run_in, run_pc, processed, failed_chapters, stage1_output,
                   stage2_output, stage3_output>>

\* the files save_events writes into the output directory
SavedFiles == {"events.parquet", "events.jsonl"}

\* Stage2Coordinator.run, lines 155-168
Stage2Return ==
    /\ run_pc = "extract" /\ run_i > Len(run_in.chunks)
    /\ stage2_output' =
         [returned |-> TRUE,
          saved |-> SavedFiles,
          handoff |-> [status |-> "completed",
                       event_count |-> all_events,
                       output_dir |-> "stage2_output",
                       processing_time |-> "duration",
                       start_time |-> "start",
                       end_time |-> "end"]]
    /\ run_pc' = "stage3"
    /\ UNCHANGED <<run_in, run_i, processed, failed_chapters, all_events, stage1_output,
                   stage3_output>>

\* Stage3Coordinator.load_events on a file stage 2 saved: json.load wants
\* one JSON array in the file.  events.jsonl holds one object per line
\* (no JSON when empty or when it has two lines or more; one object, whose
\* items are its keys, when it has one), events.parquet is binary.
load_events(path, saved, event_count) ==
    IF path \notin saved THEN [ok |-> FALSE, error |-> "FileNotFoundError"]
    ELSE IF path = "events.jsonl" /\ event_count = 1
         THEN [ok |-> FALSE, error |-> "TypeError"]
         ELSE [ok |-> FALSE, error |-> "JSONDecodeError"]

\* Stage3Coordinator.run, lines 63-100
Stage3Run ==
    /\ run_pc = "stage3"
    /\ LET h == stage2_output.handoff
           loaded == IF "event_kb_path" \in DOMAIN h
                     THEN load_events(h["event_kb_path"], stage2_output.saved,
                                      h.event_count)
                     ELSE [ok |-> FALSE, error |-> "KeyError"]
       IN  stage3_output' =
             IF loaded.ok
             THEN [returned |-> TRUE, status |-> "completed", error |-> "None"]
             ELSE [returned |-> TRUE, status |-> "error", error |-> loaded.error]
    /\ run_pc' = "done"
    /\ UNCHANGED <<run_in, run_i, processed, failed_chapters, all_events, stage1_output,
                   stage2_output>>

NextRun ==
    \/ (SegmentToFiles /\ UNCHANGED <<stage2vars, segvars, postvars, parsevars, srcvars,
                                      rhythmvars, storyvars, patvars>>)
    \/ (AnalyzeChapter /\ UNCHANGED <<stage2vars, segvars, postvars, parsevars, srcvars,
                                      rhythmvars, storyvars, patvars>>)
    \/ (Stage1Return /\ UNCHANGED <<stage2vars, segvars, postvars, parsevars, srcvars,
                                    rhythmvars, storyvars, patvars>>)
    \/ (Stage2Start /\ UNCHANGED <<stage2vars, segvars, postvars, parsevars, srcvars,
                                   rhythmvars, storyvars, patvars>>)
    \/ (ExtractChunk /\ UNCHANGED <<stage2vars, segvars, postvars, parsevars, srcvars,
                                    rhythmvars, storyvars, patvars>>)
    \/ (Stage2Return /\ UNCHANGED <<stage2vars, segvars, postvars, parsevars, srcvars,
                                    rhythmvars, storyvars, patvars>>)
    \/ (Stage3Run /\ UNCHANGED <<stage2vars, segvars, postvars, parsevars, srcvars,
                                 rhythmvars, storyvars, patvars>>)

RunInit ==
    /\ IdleBase /\ InitRun
    /\ IdleParse /\ IdleSource /\ IdleRhythm /\ IdleStory /\ IdlePat

SpecRun == RunInit /\ [][NextRun]_vars

\* The units of a run whose service call failed or whose answer did not
\* parse, or that failed otherwise.
FailedUnits(outcomes) ==
    SelectSeqIdx([i \in 1..Len(outcomes) |-> i],
                 {i \in 1..Len(outcomes) : outcomes[i] /= "ok"})

\* C12: when the service call fails, or its answer cannot be parsed, for
\* some chapters of a stage-1 run or some chunks of a stage-2 run, the run
\* still goes through all its units and returns status 'partial', with the
\* failed units listed; it returns 'completed' only when no unit failed.
C12_PartialOnFailure ==
    /\ (stage1_output.returned /\ run_in.segmentation = "ok") =>
          LET h == stage1_output.handoff
              failed == FailedUnits(run_in.chapters)
          IN  /\ h.status = IF failed = <<>> THEN "completed" ELSE "partial"
              /\ h.failed_chapters = failed
              /\ h.processed + h.failed = h.total_chapters
    /\ stage2_output.returned =>
          stage2_output.handoff.status =
              IF FailedUnits(run_in.chunks) = <<>> THEN "completed" ELSE "partial"

\* C13: the handoff Stage2Coordinator.run returns has the event-KB path
\* under the key Stage3Coordinator.run reads, so that stage 3, run on the
\* result of a successful stage-2 run, loads the saved events and does
\* not end with status 'error'.
C13_HandoffCarriesKbPath ==
    /\ stage2_output.returned => "event_kb_path" \in DOMAIN stage2_output.handoff
    /\ stage3_output.returned => stage3_output.status /= "error"

(***************************************************************************)
(* Stage 3: RhythmAnalyzer (rhythm_analyzer.py), read with the name Any    *)
(* of its line 8 imported.                                                 *)
(*                                                                         *)
(* An event is its event_id, its conflict intensity and its                *)
(* source_chapters.  ConflictScorer lives in src/core/quantification,      *)
(* outside the sources at hand: calculate_intensity is taken to give the   *)
(* intensity the event carries.  The pacing score is kept in tenths.       *)
(***************************************************************************)
MaxRhythmEvents == 5

Intensities == {6, 7, 8}
Thresholds == {7, 8}
SourceLists == {<<>>, <<1>>, <<1, 2>>}

calculate_intensity(e) == e.intensity

\* line 21, for the 0-based index i
IsPeak_weak(intensities, i) ==
    intensities[i + 1] >= intensities[i] /\ intensities[i + 1] >= intensities[i + 2]
IsPeak(intensities, i) ==
    intensities[i + 1] > intensities[i] /\ intensities[i + 1] > intensities[i + 2]

\* the loop of lines 20-28 from the 0-based index i on; range(1, n - 1)
RECURSIVE TurningLoop(_, _, _, _)
TurningLoop(events, intensities, i, threshold) ==
    IF i >= Len(intensities) - 1 THEN <<>>
    ELSE (IF IsPeak(intensities, i) /\ intensities[i + 1] >= threshold
          THEN <<[position |-> <<i + 1, Len(events)>>,
                  event_id |-> events[i + 1].event_id,
                  intensity |-> intensities[i + 1]]>>
          ELSE <<>>)
         \o TurningLoop(events, intensities, i + 1, threshold)

detect_turning_points(events, threshold) ==
    TurningLoop(events, [k \in 1..Len(events) |-> calculate_intensity(events[k])],
                1, threshold)

RECURSIVE SumSeq(_)
SumSeq(s) == IF s = <<>> THEN 0 ELSE Head(s) + SumSeq(Tail(s))

\* lines 38-41: sum(chapter_counts.values()) and len(chapter_counts)
Attributions(events) == SumSeq([k \in 1..Len(events) |-> Len(events[k].source_chapters)])
ChaptersReferenced(events) ==
    UNION {{events[k].source_chapters[j] : j \in 1..Len(events[k].source_chapters)} :
           k \in 1..Len(events)}

\* round(x, 1) of x = num / den tenths: the nearest tenth; on a tie the
\* binary representation of x decides, either neighbour may come out
Round1(num, den) ==
    {t \in {num \div den, (num \div den) + 1} :
        2 * (IF t * den >= num THEN t * den - num ELSE num - t * den) <= den}

\* lines 43-52 for a non-empty list that references a chapter: ten times
\* min(10, avg_density * 0.5 + variance * 0.3) as the fraction num / den,
\* with variance = (n * sum(i^2) - sum(i)^2) / n^2
PacingTenths(events) ==
    LET n == Len(events)
        c == Cardinality(ChaptersReferenced(events))
        ints == [k \in 1..n |-> calculate_intensity(events[k])]
        s == SumSeq(ints)
        q == SumSeq([k \in 1..n |-> ints[k] * ints[k]])
        num == 5 * Attributions(events) * n * n + 3 * c * (n * q - s * s)
        den == c * n * n
    IN  IF num >= 100 * den THEN {100} ELSE Round1(num, den)

\* the outcomes of calculate_pacing_score
calculate_pacing_score(events) ==
    IF events = <<>> THEN {[kind |-> "returned", tenths |-> 0]}
    ELSE IF ChaptersReferenced(events) = {}
         THEN {[kind |-> "raised", error |-> "ZeroDivisionError"]}
         ELSE {[kind |-> "returned", tenths |-> t] : t \in PacingTenths(events)}

InitRhythm ==
    /\ \E n \in 0..MaxRhythmEvents :
         \E f \in [1..n -> Intensities], g \in [1..n -> SourceLists] :
            rh_events = [k \in 1..n |-> [event_id |-> k, intensity |-> f[k],
                                         source_chapters |-> g[k]]]
    /\ rh_threshold \in Thresholds
    /\ rh_pc = "loaded"
    /\ rh_turning = <<>>
    /\ rh_pacing = [kind |-> "none"]

\* Stage3Coordinator.reconstruct_global_structure, lines 35-36
AnalyzeRhythm ==
    /\ rh_pc = "loaded"
    /\ rh_turning' = detect_turning_points(rh_events, rh_threshold)
    /\ rh_pacing' \in calculate_pacing_score(rh_events)
    /\ rh_pc' = "done"
    /\ UNCHANGED <<rh_events, rh_threshold>>

NextRhythm ==
    AnalyzeRhythm /\ UNCHANGED <<stage2vars, segvars, postvars, parsevars, srcvars,
                                 runvars, storyvars, patvars>>

RhythmInit ==
    /\ IdleBase /\ InitRhythm
    /\ IdleParse /\ IdleSource /\ IdleRun /\ IdleStory /\ IdlePat

SpecRhythm == RhythmInit /\ [][NextRhythm]_vars

\* The 0-based index i is a turning point: interior, strictly above both
\* neighbours, and at or above the threshold.
TurningAt(i) ==
    /\ 1 <= i /\ i <= Len(rh_events) - 2
    /\ rh_events[i + 1].intensity > rh_events[i].intensity
    /\ rh_events[i + 1].intensity > rh_events[i + 2].intensity
    /\ rh_events[i + 1].intensity >= rh_threshold

C15_PacingScore ==
    rh_pc = "done" =>
        /\ rh_pacing.kind = "returned"
        /\ rh_pacing.tenths \in 0..100
        /\ rh_events = <<>> => rh_pacing.tenths = 0
        /\ (rh_events /= <<>> /\ ChaptersReferenced(rh_events) /= {})
             => rh_pacing.tenths \in PacingTenths(rh_events)

(***************************************************************************)
(* Stage 3: StorylineExtractor.extract_main_storyline and its fallback     *)
(* (storyline_extractor.py:15-50).                                         *)
(*                                                                         *)
(* An event is its event_id, its core_elements.impact_value and its        *)
(* temporal.position (pos).  The answer of the service either parses, or   *)
(* does not, or the call itself raises.                                    *)
(***************************************************************************)
MaxStoryEvents == 3
FallbackCap == 15

Impacts == {6, 7, 8}
Positions == {1, 2}
StoryConfigs == [min_impact : {7, 8}, max_events : {1, 2, 20}]
StoryResponses == {"parsed", "unparseable", "error"}

\* line 19
CandidateEvents(events, min_impact) ==
    SelectSeq(events, LAMBDA e : e.impact_value >= min_impact)

\* lines 19-22: filtered, then sorted in place by temporal.position; the
\* config's main_story_max_events goes into the service input only
Candidates(events, config) == SortByPos(CandidateEvents(events, config.min_impact))

\* lines 44-50
fallback_main_story(events) ==
    LET first == SubSeq(events, 1, Min2(FallbackCap, Len(events)))
    IN  [k \in 1..Len(first) |-> [event_id |-> first[k].event_id]]

\* lines 32-42
extract_main_storyline(events, config, resp) ==
    CASE resp = "error" -> [kind |-> "raised"]
      [] resp = "parsed" -> [kind |-> "service"]
      [] OTHER -> [kind |-> "fallback",
                   storyline |-> fallback_main_story(Candidates(events, config))]

InitStory ==
    /\ \E n \in 0..MaxStoryEvents :
         \E f \in [1..n -> Impacts], g \in [1..n -> Positions] :
            st_events = [k \in 1..n |-> [event_id |-> k, impact_value |-> f[k],
                                         pos |-> g[k]]]
    /\ st_cfg \in StoryConfigs
    /\ st_response \in StoryResponses
    /\ st_pc = "loaded"
    /\ st_result = [kind |-> "none"]

\* Stage3Coordinator.reconstruct_global_structure, line 29
ExtractStoryline ==
    /\ st_pc = "loaded"
    /\ st_result' = extract_main_storyline(st_events, st_cfg, st_response)
    /\ st_pc' = "done"
    /\ UNCHANGED <<st_events, st_cfg, st_response>>

NextStory ==
    ExtractStoryline /\ UNCHANGED <<stage2vars, segvars, postvars, parsevars, srcvars,
                                    runvars, rhythmvars, patvars>>

StoryInit ==
    /\ IdleBase /\ InitStory
    /\ IdleParse /\ IdleSource /\ IdleRun /\ IdleRhythm /\ IdlePat

SpecStory == StoryInit /\ [][NextStory]_vars

\* The candidate set as described: filtered by impact, sorted by position,
\* capped at main_story_max_events.
CappedCandidates ==
    LET sorted == SortByPos(SelectSeq(st_events,
                                      LAMBDA e : e.impact_value >= st_cfg.min_impact))
    IN  SubSeq(sorted, 1, Min2(st_cfg.max_events, Len(sorted)))

\* C18: when the service response does not parse, extract_main_storyline
\* returns the first min(15, count) entries of the candidates, which are
\* the events with impact_value >= main_story_min_impact sorted by
\* position and capped at main_story_max_events; so the fallback is never
\* longer than min(15, main_story_max_events).
C18_FallbackStoryline ==
    (st_pc = "done" /\ st_response = "unparseable") =>
        /\ st_result.kind = "fallback"
        /\ LET first == SubSeq(CappedCandidates, 1, Min2(15, Len(CappedCandidates)))
           IN  st_result.storyline = [k \in 1..Len(first) |-> [event_id |-> first[k].event_id]]
        /\ Len(st_result.storyline) <= Min2(15, st_cfg.max_events)

(***************************************************************************)
(* Stage 1: ChapterSegmenter.__init__ (chapter_segmenter.py:14-34).        *)
(*                                                                         *)
(* DEFAULT_PATTERNS is one list object of the class.  Line 29 binds        *)
(* self.patterns to that object, and "+=" on a list extends the object in  *)
(* place, so every instance refers to the class's list: class_patterns is  *)
(* its content, and an instance keeps the reference.                       *)
(***************************************************************************)
MaxInstances == 4

\* custom_patterns: None (or empty), or a list of patterns
CustomPatterns == {<<>>, <<"c">>, <<"d">>}

\* self.patterns of an instance: the content of the object it refers to
PatternsOf(inst) == class_patterns

InitPat ==
    /\ class_patterns = DEFAULT_PATTERNS
    /\ instances = <<>>

\* ChapterSegmenter(custom_patterns)
NewSegmenter ==
    /\ Len(instances) < MaxInstances
    /\ \E custom \in CustomPatterns :
         /\ class_patterns' = IF custom /= <<>> THEN class_patterns \o custom
                              ELSE class_patterns
         /\ instances' = Append(instances, [custom_patterns |-> custom,
                                            patterns |-> "DEFAULT_PATTERNS"])

NextPat ==
    NewSegmenter /\ UNCHANGED <<stage2vars, segvars, postvars, parsevars, srcvars,
                                runvars, rhythmvars, storyvars>>

PatInit ==
    /\ IdleBase /\ InitPat
    /\ IdleParse /\ IdleSource /\ IdleRun /\ IdleRhythm /\ IdleStory

SpecPat == PatInit /\ [][NextPat]_vars

\* C20: the patterns a ChapterSegmenter uses depend only on the
\* custom_patterns given to its own constructor: after any sequence of
\* constructions every instance uses the defaults followed by its own
\* custom patterns, an instance built without custom patterns exactly the
\* defaults, and DEFAULT_PATTERNS is unchanged.
C20_NoPatternLeak ==
    /\ class_patterns = DEFAULT_PATTERNS
    /\ \A i \in 1..Len(instances) :
         PatternsOf(instances[i]) = DEFAULT_PATTERNS \o instances[i].custom_patterns

(***************************************************************************)
(* Termination of the loop of process_all_chapters (chunk_engine.py:       *)
(* 149-172).  SpecLoop is the call of process_all_chapters alone, from the *)
(* constructed engine to the return of final_chunks, for the               *)
(* configurations with initial_chunk_size >= 1 and 1 <= min_chunk_size <=  *)
(* max_chunk_size; it never stops while a step is possible: the program    *)
(* keeps executing.                                                        *)
(***************************************************************************)
NextLoop ==
    \/ (Construct /\ UNCHANGED <<segvars, postvars, latervars>>)
    \/ (StartChunking /\ UNCHANGED <<segvars, postvars, latervars>>)
    \/ (TakeChunk /\ UNCHANGED <<segvars, postvars, latervars>>)
    \/ (Advance /\ UNCHANGED <<segvars, postvars, latervars>>)

\* the configurations the termination argument is about
GoodConfig == cfg.initial_chunk_size >= 1 /\ ValidConfig

LoopInit == Init /\ GoodConfig

SpecLoop == LoopInit /\ [][NextLoop]_vars /\ WF_vars(NextLoop)

InLoop == pc \in {"loop", "advance"}

\* C19: for every chapter sequence and every configuration with
\* initial_chunk_size >= 1 and 1 <= min_chunk_size <= max_chunk_size, the
\* loop of process_all_chapters terminates: every iteration takes at least
\* one chapter off remaining_chapters and goes on without an exception,
\* the loop is left exactly when remaining_chapters is empty, and a run
\* that has entered the loop does leave it.
C19_LoopTerminates ==
    /\ [][(GoodConfig /\ pc = "loop" /\ remaining_chapters /= <<>>)
            => (Len(remaining_chapters') < Len(remaining_chapters) /\ pc' = "advance")]_vars
    /\ [][(GoodConfig /\ InLoop)
            => (pc' = "extract" <=> remaining_chapters = <<>>)]_vars
    /\ (GoodConfig /\ InLoop) ~> (pc = "extract" /\ remaining_chapters = <<>>)

\* A run over five chapters that took three iterations or more.
C19_Witness ==
    /\ GoodConfig /\ pc = "extract" /\ remaining_chapters = <<>>
    /\ Len(all_chapters) = MaxChapters
    /\ Len(final_chunks) >= 3

====
